---- MODULE Spec2Model ----
(***************************************************************************)
(* State-machine model of src/zatca_app.py (class ZatcaInvoice).           *)
(*                                                                         *)
(* One ZatcaInvoice instance is driven by a single-threaded caller that    *)
(* prepares the keyword arguments of generate_complete_invoice, makes the  *)
(* call, and takes the returned value.  The key file on disk is changed by *)
(* the environment between calls.                                          *)
(*                                                                         *)
(* Numbers: a Python number v is held as the integer v * 10^5 (Scale), so  *)
(* that prices with three decimals, integer quantities and integer tax     *)
(* rates give exact products.  Texts are TLA+ strings.  SHA-256, base64    *)
(* and ECDSA are symbolic injective constructors on strings.               *)
(***************************************************************************)
EXTENDS Integers, Sequences, FiniteSets, TLC

VARIABLES invoice_counter, key_file, args, pc, invoice_data, signature,
          sign_failed, returned, written

\* what a caller of the single public methods holds: the record it got from
\* create_simple_invoice, the signature it got for it, the first and the latest
\* document create_invoice_xml gave it for that record, and the outcome of its
\* latest generate_qr_code call
VARIABLES record, record_signature, first_xml, last_xml, qr_call

direct == <<record, record_signature, first_xml, last_xml, qr_call>>

vars == <<invoice_counter, key_file, args, pc, invoice_data, signature,
          sign_failed, returned, written, direct>>

----------------------------------------------------------------------------
(* Bounds *)

\* calls are made while invoice_counter < MaxCounter
MaxCounter == 3
\* the caller overrides at most this many optional keyword arguments
MaxOverrides == 2
\* largest amount, in cents, a 2-decimal text is read back from
MaxCents == 3000

----------------------------------------------------------------------------
(* Python values *)

None == "None"
NoneRecord == [none |-> TRUE]
IsNone(r) == "none" \in DOMAIN r

\* bool(s) for a str-or-None value
Truthy(s) == s # None /\ s # ""

\* d.get(k, default)
Get(d, k, default) == IF k \in DOMAIN d THEN d[k] ELSE default

Scale == 100000

\* datetime.now(): the clock readings a call may observe
Clock == {[ymd |-> "20240501", date |-> "2024-05-01", time |-> "09:30:00"]}
\* uuid.uuid4() outcomes
Uuids == {"uuid-a"}
\* per-signature random nonce of DSS 'fips-186-3'
Nonces == {"k1"}

----------------------------------------------------------------------------
(* Symbolic crypto and encodings *)

b64encode(s) == "b64(" \o s \o ")"
sha256(s) == "sha256(" \o s \o ")"
ecdsa(msg, key, nonce) == "ecdsa(" \o key \o "," \o nonce \o "," \o msg \o ")"

----------------------------------------------------------------------------
(* _format_amount: "{:.2f}".format(float(amount)) *)

\* round a non-negative amount (in 10^-5 units) to cents, ties to even
RoundCents(x) ==
    LET q == x \div 1000
        r == x % 1000
    IN  IF r > 500 \/ (r = 500 /\ q % 2 = 1) THEN q + 1 ELSE q

FormatCents(c) ==
    ToString(c \div 100) \o "." \o ToString((c % 100) \div 10) \o ToString(c % 10)

_format_amount(amount) ==
    IF amount < 0 THEN "-" \o FormatCents(RoundCents(0 - amount))
    ELSE FormatCents(RoundCents(amount))

\* f"{n:03d}"
Pad3(n) ==
    IF n < 10 THEN "00" \o ToString(n)
    ELSE IF n < 100 THEN "0" \o ToString(n)
    ELSE ToString(n)

----------------------------------------------------------------------------
(* lxml element trees: a node is a tag, ordered attributes, a text and     *)
(* ordered children.  A parent is passed and returned as its child list.   *)

NoText == None

Element(tag, attrib, text, children) ==
    [tag |-> tag, attrib |-> attrib, text |-> text, children |-> children]

\* etree.SubElement(parent, tag).text = text
Leaf(tag, text) == Element(tag, <<>>, text, <<>>)
\* a leaf with attributes set
LeafA(tag, attrib, text) == Element(tag, attrib, text, <<>>)
\* an element that only holds children
Parent(tag, children) == Element(tag, <<>>, NoText, children)

\* element.get(name): the value of an attribute, None when not set
Attr(node, name) ==
    IF \E i \in 1..Len(node.attrib) : node.attrib[i][1] = name
    THEN node.attrib[CHOOSE i \in 1..Len(node.attrib) : node.attrib[i][1] = name][2]
    ELSE None

\* parent.findall(tag): the children with that tag, in order
FindAll(children, tag) == SelectSeq(children, LAMBDA n : n.tag = tag)

\* the sequence of tags of a child list
Tags(children) == [i \in 1..Len(children) |-> children[i].tag]

----------------------------------------------------------------------------
(* Caller data: the dicts and lists handed to generate_complete_invoice    *)

AddressOK == [street |-> "Main Street", building |-> "1234", city |-> "Riyadh",
              district |-> "Al Olaya District", postal_code |-> "12345",
              country_code |-> "SA"]
AddressNoPostal == [street |-> "Main Street", building |-> "1234", city |-> "Riyadh",
                    district |-> "Al Olaya District", country_code |-> "SA"]
AddressEmptyPostal == [AddressOK EXCEPT !.postal_code = ""]

SellerOK == [name |-> "ABC Company", vat |-> "310000000000003",
             id_number |-> "1234567890", id_scheme |-> "CRN", address |-> AddressOK]
Sellers == {SellerOK,
            [SellerOK EXCEPT !.address = AddressNoPostal],
            [SellerOK EXCEPT !.address = AddressEmptyPostal]}

BuyerOK == [name |-> "Customer Name", id_number |-> "2345678901", id_scheme |-> "NAT",
            address |-> AddressOK]
BuyerNoId == [name |-> "Customer Name", address |-> AddressOK]
BuyerEmptyId == [name |-> "Customer Name", id_number |-> "", id_scheme |-> "NAT",
                 address |-> AddressOK]
BuyerNoScheme == [name |-> "Customer Name", id_number |-> "2345678901",
                  address |-> AddressOK]
Buyers == {BuyerOK, BuyerNoId, BuyerEmptyId, BuyerNoScheme}

\* prices are in 10^-5 units: 500000 is 5.00, 400 is 0.004
ItemA == [id |-> 1, name |-> "Product A", price |-> 500000, quantity |-> 2,
          unit_code |-> "PCE"]
ItemB == [id |-> 2, price |-> 400, quantity |-> 1]
ItemZeroQty == [id |-> 1, name |-> "Product A", price |-> 500000, quantity |-> 0,
                unit_code |-> "PCE"]
ItemNegPrice == [id |-> 1, name |-> "Product A", price |-> 0 - 100000, quantity |-> 1,
                 unit_code |-> "PCE"]
ItemNoPrice == [id |-> 1, name |-> "Product A", quantity |-> 1]
ItemLists == {<<>>, <<ItemA>>, <<ItemB>>, <<ItemA, ItemB>>, <<ItemZeroQty>>,
              <<ItemNegPrice>>, <<ItemNoPrice>>}

InvoiceNumbers == {None, "CUSTOM-7"}
PreviousHashes == {None, "", "b64(sha256(A))"}
IssueDates == {None, "2024-04-30"}
IssueTimes == {None, "23:59:59"}
TaxRates == {0, 15, 100, 150}
PaymentMeansCodes == {"10", "30"}
Currencies == {"SAR", "USD"}
OutputPaths == {None, "invoice.xml", "missing_dir/invoice.xml"}
\* paths open(path, "w") cannot create
UnwritablePaths == {"missing_dir/invoice.xml"}

\* the key file at private_key_path
KeyFiles == {"absent", "valid", "malformed", "unreadable"}

\* the defaults of generate_complete_invoice's optional keyword arguments
Defaults == [invoice_number |-> None, previous_invoice_hash |-> None,
             issue_date |-> None, issue_time |-> None, tax_rate |-> 15,
             payment_means_code |-> "10", currency |-> "SAR", output_path |-> None]

Overrides(a) == Cardinality({k \in DOMAIN Defaults : a[k] # Defaults[k]})

----------------------------------------------------------------------------
(* create_simple_invoice *)

RECURSIVE SumLines(_)
\* sum(item['price'] * item['quantity'] for item in invoice_items)
SumLines(items) ==
    IF items = <<>> THEN 0
    ELSE items[1].price * items[1].quantity + SumLines(Tail(items))

\* the generator expression raises KeyError on an item without price/quantity
ItemsRaise(items) ==
    \E i \in 1..Len(items) : ~ {"price", "quantity"} \subseteq DOMAIN items[i]

\* the invoice number the call uses
InvoiceNumberOf(counter, invoice_number, now) ==
    IF invoice_number = None
    THEN "INV-" \o now.ymd \o "-" \o Pad3(counter)
    ELSE invoice_number

\* self.invoice_counter after the call
CounterAfterCreate(counter, invoice_number) ==
    IF invoice_number = None THEN counter + 1 ELSE counter

\* the returned dict; evaluated only when ItemsRaise is false
create_simple_invoice(counter, a, now, uuid4) ==
    LET total_without_vat == SumLines(a.invoice_items)
        vat_amount == (total_without_vat * a.tax_rate) \div 100
        total_with_vat == total_without_vat + vat_amount
    IN  [invoice_number |-> InvoiceNumberOf(counter, a.invoice_number, now),
         uuid |-> uuid4,
         seller |-> a.seller_data,
         buyer |-> a.buyer_data,
         issue_date |-> IF a.issue_date = None THEN now.date ELSE a.issue_date,
         issue_time |-> IF a.issue_time = None THEN now.time ELSE a.issue_time,
         tax_rate |-> a.tax_rate,
         total_without_vat |-> total_without_vat,
         total_with_vat |-> total_with_vat,
         vat_amount |-> vat_amount,
         items |-> a.invoice_items,
         previous_invoice_hash |-> a.previous_invoice_hash]

----------------------------------------------------------------------------
(* generate_qr_code (payload only; output_path=None inside assembly) *)

\* generate_qr_code with the VAT amount placed before the total
generate_qr_code_VatFirst(data) ==
    LET seller_vat == data.seller.vat
        timestamp == data.issue_date \o "T" \o data.issue_time
        total == _format_amount(data.total_with_vat)
        vat == _format_amount(data.vat_amount)
        hash_value == b64encode(sha256(seller_vat \o timestamp \o total \o vat))
    IN  seller_vat \o "|" \o timestamp \o "|" \o vat \o "|" \o total \o "|" \o hash_value

generate_qr_code(data) ==
    LET seller_vat == data.seller.vat
        timestamp == data.issue_date \o "T" \o data.issue_time
        total == _format_amount(data.total_with_vat)
        vat == _format_amount(data.vat_amount)
        hash_value == b64encode(sha256(seller_vat \o timestamp \o total \o vat))
    IN  seller_vat \o "|" \o timestamp \o "|" \o total \o "|" \o vat \o "|" \o hash_value

----------------------------------------------------------------------------
(* sign_invoice *)

SignaturePlaceholder == b64encode("signature_placeholder")

\* reading and importing the key succeeds only for a valid PEM file
KeyLoads(key) == key = "valid"

sign_invoice(data, key, nonce) ==
    IF KeyLoads(key)
    THEN [failed |-> FALSE,
          value |-> b64encode(ecdsa(sha256(ToString(data)), key, nonce))]
    ELSE [failed |-> TRUE, value |-> SignaturePlaceholder]

----------------------------------------------------------------------------
(* Document assembly.  Each _add_* takes the root's child list and returns *)
(* it with the elements the method appends.                                *)

DigestPlaceholder == b64encode(sha256("invoice_digest"))

SignedInfo ==
    Parent("ds:SignedInfo", <<
        LeafA("ds:CanonicalizationMethod",
              << <<"Algorithm", "http://www.w3.org/2006/12/xml-c14n11">> >>, NoText),
        LeafA("ds:SignatureMethod",
              << <<"Algorithm", "http://www.w3.org/2001/04/xmldsig-more#ecdsa-sha256">> >>,
              NoText),
        Element("ds:Reference", << <<"URI", "">> >>, NoText, <<
            Parent("ds:Transforms", <<
                Element("ds:Transform",
                        << <<"Algorithm", "http://www.w3.org/TR/1999/REC-xpath-19991116">> >>,
                        NoText,
                        << Leaf("ds:XPath", "not(//ancestor-or-self::ext:UBLExtensions)") >>),
                Element("ds:Transform",
                        << <<"Algorithm", "http://www.w3.org/TR/1999/REC-xpath-19991116">> >>,
                        NoText,
                        << Leaf("ds:XPath", "not(//ancestor-or-self::cac:Signature)") >>),
                Element("ds:Transform",
                        << <<"Algorithm", "http://www.w3.org/TR/1999/REC-xpath-19991116">> >>,
                        NoText,
                        << Leaf("ds:XPath",
                                "not(//ancestor-or-self::cac:AdditionalDocumentReference[cbc:ID='QR'])") >>),
                LeafA("ds:Transform",
                      << <<"Algorithm", "http://www.w3.org/2006/12/xml-c14n11">> >>, NoText)
            >>),
            LeafA("ds:DigestMethod",
                  << <<"Algorithm", "http://www.w3.org/2001/04/xmlenc#sha256">> >>, NoText),
            Leaf("ds:DigestValue", DigestPlaceholder)
        >>)
    >>)

\* the ext:UBLExtension subtree holding the ds:Signature
UBLExtension(sig) ==
    LET signature_value == IF Truthy(sig) THEN sig ELSE SignaturePlaceholder
    IN  Parent("ext:UBLExtension", <<
            Leaf("ext:ExtensionURI", "urn:oasis:names:specification:ubl:dsig:enveloped:xades"),
            Parent("ext:ExtensionContent", <<
                Parent("sig:UBLDocumentSignatures", <<
                    Parent("sac:SignatureInformation", <<
                        Leaf("cbc:ID", "urn:oasis:names:specification:ubl:signature:1"),
                        Leaf("sbc:ReferencedSignatureID",
                             "urn:oasis:names:specification:ubl:signature:Invoice"),
                        Element("ds:Signature", << <<"Id", "signature">> >>, NoText, <<
                            SignedInfo,
                            Leaf("ds:SignatureValue", signature_value),
                            Parent("ds:KeyInfo", <<
                                Parent("ds:X509Data", <<
                                    Leaf("ds:X509Certificate",
                                         b64encode("certificate_placeholder"))
                                >>)
                            >>)
                        >>)
                    >>)
                >>)
            >>)
        >>)

_add_signature_placeholder(root, sig) ==
    IF \E i \in 1..Len(root) : root[i].tag = "ext:UBLExtensions"
    THEN LET i == CHOOSE j \in 1..Len(root) :
                    /\ root[j].tag = "ext:UBLExtensions"
                    /\ \A k \in 1..(j - 1) : root[k].tag # "ext:UBLExtensions"
         IN  [root EXCEPT ![i].children = Append(@, UBLExtension(sig))]
    ELSE << Parent("ext:UBLExtensions", << UBLExtension(sig) >>) >> \o root

\* PreviousHashReference with the test "is not None" in place of truthiness
PreviousHashReference_IsNotNone(data) ==
    IF Get(data, "previous_invoice_hash", None) # None
    THEN << Parent("cac:AdditionalDocumentReference", <<
                Leaf("cbc:ID", "PIH"),
                Parent("cac:Attachment", <<
                    LeafA("cbc:EmbeddedDocumentBinaryObject",
                          << <<"mimeCode", "text/plain">> >>,
                          data.previous_invoice_hash)
                >>)
            >>) >>
    ELSE <<>>

\* "if invoice_data.get('previous_invoice_hash'):" and the PIH reference it adds
PreviousHashReference(data) ==
    IF Truthy(Get(data, "previous_invoice_hash", None))
    THEN << Parent("cac:AdditionalDocumentReference", <<
                Leaf("cbc:ID", "PIH"),
                Parent("cac:Attachment", <<
                    LeafA("cbc:EmbeddedDocumentBinaryObject",
                          << <<"mimeCode", "text/plain">> >>,
                          data.previous_invoice_hash)
                >>)
            >>) >>
    ELSE <<>>

_add_common_elements(root, counter, data) ==
    root \o <<
        Leaf("cbc:UBLVersionID", "2.1"),
        Leaf("cbc:CustomizationID",
             "urn:cen.eu:en16931:2017#compliant#urn:fdc:peppol.eu:2017:poacc:billing:3.0"),
        Leaf("cbc:ProfileID", "reporting:1.0"),
        Leaf("cbc:ID", data.invoice_number),
        Leaf("cbc:UUID", data.uuid),
        Leaf("cbc:IssueDate", data.issue_date),
        Leaf("cbc:IssueTime", data.issue_time),
        LeafA("cbc:InvoiceTypeCode", << <<"name", "0100000">> >>, "388"),
        Leaf("cbc:DocumentCurrencyCode", "SAR"),
        Leaf("cbc:TaxCurrencyCode", "SAR"),
        Parent("cac:AdditionalDocumentReference", <<
            Leaf("cbc:ID", "ICV"),
            Leaf("cbc:UUID", ToString(counter))
        >>)
    >> \o PreviousHashReference(data)

_add_qr_code(root, qr_content) ==
    Append(root,
        Parent("cac:AdditionalDocumentReference", <<
            Leaf("cbc:ID", "QR"),
            Parent("cac:Attachment", <<
                LeafA("cbc:EmbeddedDocumentBinaryObject",
                      << <<"mimeCode", "text/plain">> >>,
                      b64encode(qr_content))
            >>)
        >>))

\* cac:PostalAddress of a party
PostalAddress(address) ==
    Parent("cac:PostalAddress", <<
        Leaf("cbc:StreetName", address.street),
        Leaf("cbc:BuildingNumber", address.building),
        Leaf("cbc:CityName", address.city),
        Leaf("cbc:PostalZone", address.postal_code),
        Leaf("cbc:CountrySubentity", address.district),
        Parent("cac:Country", << Leaf("cbc:IdentificationCode", address.country_code) >>)
    >>)

\* cac:PartyIdentification with its scheme-carrying cbc:ID
PartyIdentification(party) ==
    Parent("cac:PartyIdentification", <<
        LeafA("cbc:ID", << <<"schemeID", party.id_scheme>> >>, party.id_number)
    >>)

AddressKeys == {"street", "building", "city", "postal_code", "district", "country_code"}

\* a dict lookup of _add_seller_info raises KeyError
SellerRaises(data) ==
    \/ ~ {"id_number", "id_scheme", "address", "vat", "name"} \subseteq DOMAIN data.seller
    \/ ~ AddressKeys \subseteq DOMAIN data.seller.address

_add_seller_info(root, data) ==
    Append(root,
        Parent("cac:AccountingSupplierParty", <<
            Parent("cac:Party", <<
                PartyIdentification(data.seller),
                PostalAddress(data.seller.address),
                Parent("cac:PartyTaxScheme", <<
                    Leaf("cbc:CompanyID", data.seller.vat),
                    Parent("cac:TaxScheme", << Leaf("cbc:ID", "VAT") >>)
                >>),
                Parent("cac:PartyLegalEntity", <<
                    Leaf("cbc:RegistrationName", data.seller.name)
                >>)
            >>)
        >>))

\* a dict lookup of _add_customer_info raises KeyError
CustomerRaises(data) ==
    \/ ~ {"address", "name"} \subseteq DOMAIN data.buyer
    \/ ~ AddressKeys \subseteq DOMAIN data.buyer.address
    \/ Truthy(Get(data.buyer, "id_number", None)) /\ "id_scheme" \notin DOMAIN data.buyer

\* BuyerIdentification testing that the key is present, not that it is non-empty
BuyerIdentification_KeyPresent(buyer) ==
    IF "id_number" \in DOMAIN buyer
    THEN << PartyIdentification(buyer) >>
    ELSE <<>>

\* "if invoice_data['buyer'].get('id_number'):" and the identification it adds
BuyerIdentification(buyer) ==
    IF Truthy(Get(buyer, "id_number", None))
    THEN << PartyIdentification(buyer) >>
    ELSE <<>>

_add_customer_info(root, data) ==
    Append(root,
        Parent("cac:AccountingCustomerParty", <<
            Parent("cac:Party", BuyerIdentification(data.buyer) \o <<
                PostalAddress(data.buyer.address),
                Parent("cac:PartyLegalEntity", <<
                    Leaf("cbc:RegistrationName", data.buyer.name)
                >>)
            >>)
        >>))


Cur(c) == << <<"currencyID", c>> >>

\* the cac:InvoiceLine of the i-th item
InvoiceLine(i, item) ==
    LET line_total == item.price * item.quantity
        tax_amount == (line_total * 15) \div 100
    IN  Parent("cac:InvoiceLine", <<
            Leaf("cbc:ID", ToString(item.id)),
            LeafA("cbc:InvoicedQuantity",
                  << <<"unitCode", Get(item, "unit_code", "PCE")>> >>,
                  _format_amount(item.quantity * Scale)),
            LeafA("cbc:LineExtensionAmount", Cur("SAR"), _format_amount(line_total)),
            Parent("cac:TaxTotal", <<
                LeafA("cbc:TaxAmount", Cur("SAR"), _format_amount(tax_amount)),
                LeafA("cbc:RoundingAmount", Cur("SAR"),
                      _format_amount(line_total + tax_amount))
            >>),
            Parent("cac:Item", <<
                Leaf("cbc:Name", Get(item, "name", "Item " \o ToString(i))),
                Parent("cac:ClassifiedTaxCategory", <<
                    Leaf("cbc:ID", "S"),
                    Leaf("cbc:Percent", "15"),
                    Parent("cac:TaxScheme", << Leaf("cbc:ID", "VAT") >>)
                >>)
            >>),
            Parent("cac:Price", <<
                LeafA("cbc:PriceAmount", Cur("SAR"), _format_amount(item.price)),
                Parent("cac:AllowanceCharge", <<
                    Leaf("cbc:ChargeIndicator", "false"),
                    Leaf("cbc:AllowanceChargeReason", "Discount"),
                    LeafA("cbc:Amount", Cur("SAR"), "0.00"),
                    LeafA("cbc:BaseAmount", Cur("SAR"), _format_amount(item.price))
                >>)
            >>)
        >>)

\* a dict lookup of _add_line_items raises KeyError
LineItemsRaise(data) ==
    \E i \in 1..Len(data.items) :
        ~ {"id", "quantity", "price"} \subseteq DOMAIN data.items[i]

_add_line_items(root, data) ==
    root \o [i \in 1..Len(data.items) |-> InvoiceLine(i, data.items[i])]

_add_vat_breakdown(root, data) ==
    LET currency == Get(data, "currency", "SAR")
        tax_currency == Get(data, "tax_currency", currency)
    IN  root \o <<
            Parent("cac:TaxTotal", <<
                LeafA("cbc:TaxAmount", Cur(currency), _format_amount(data.vat_amount)),
                Parent("cac:TaxSubtotal", <<
                    LeafA("cbc:TaxableAmount", Cur(currency),
                          _format_amount(data.total_without_vat)),
                    LeafA("cbc:TaxAmount", Cur(currency), _format_amount(data.vat_amount)),
                    Parent("cac:TaxCategory", <<
                        Leaf("cbc:ID", "S"),
                        Leaf("cbc:Percent", ToString(data.tax_rate)),
                        Parent("cac:TaxScheme", << Leaf("cbc:ID", "VAT") >>)
                    >>)
                >>)
            >>),
            Parent("cac:TaxTotal", <<
                LeafA("cbc:TaxAmount", Cur(tax_currency), _format_amount(data.vat_amount))
            >>)
        >>

_add_monetary_totals(root, data) ==
    Append(root,
        Parent("cac:LegalMonetaryTotal", <<
            LeafA("cbc:LineExtensionAmount", Cur("SAR"),
                  _format_amount(data.total_without_vat)),
            LeafA("cbc:TaxExclusiveAmount", Cur("SAR"),
                  _format_amount(data.total_without_vat)),
            LeafA("cbc:TaxInclusiveAmount", Cur("SAR"),
                  _format_amount(data.total_with_vat)),
            LeafA("cbc:AllowanceTotalAmount", Cur("SAR"), "0.00"),
            LeafA("cbc:PrepaidAmount", Cur("SAR"), "0.00"),
            LeafA("cbc:PayableAmount", Cur("SAR"), _format_amount(data.total_with_vat))
        >>))

\* cac:Delivery and cac:PaymentMeans, built inline by create_invoice_xml
AddDeliveryAndPayment(root, data) ==
    root \o <<
        Parent("cac:Delivery", << Leaf("cbc:ActualDeliveryDate", data.issue_date) >>),
        Parent("cac:PaymentMeans", <<
            Leaf("cbc:PaymentMeansCode", Get(data, "payment_means_code", "10"))
        >>)
    >>

\* some step of create_invoice_xml raises
AssemblyRaises(data) ==
    SellerRaises(data) \/ CustomerRaises(data) \/ LineItemsRaise(data)

\* create_invoice_xml with the line items added before the VAT breakdown
create_invoice_xml_LinesFirst(counter, data, sig) ==
    LET r1 == _add_signature_placeholder(<<>>, sig)
        r2 == _add_common_elements(r1, counter, data)
        r3 == _add_qr_code(r2, generate_qr_code(data))
        r4 == _add_seller_info(r3, data)
        r5 == _add_customer_info(r4, data)
        r6 == AddDeliveryAndPayment(r5, data)
        r7 == _add_line_items(r6, data)
        r8 == _add_vat_breakdown(r7, data)
        r9 == _add_monetary_totals(r8, data)
    IN  Parent("Invoice", r9)

\* the Invoice root element; evaluated only when AssemblyRaises is false
create_invoice_xml(counter, data, sig) ==
    LET r1 == _add_signature_placeholder(<<>>, sig)
        r2 == _add_common_elements(r1, counter, data)
        r3 == _add_qr_code(r2, generate_qr_code(data))
        r4 == _add_seller_info(r3, data)
        r5 == _add_customer_info(r4, data)
        r6 == AddDeliveryAndPayment(r5, data)
        r7 == _add_vat_breakdown(r6, data)
        r8 == _add_monetary_totals(r7, data)
        r9 == _add_line_items(r8, data)
    IN  Parent("Invoice", r9)

XmlDeclaration == "<?xml version=\"1.0\" encoding=\"UTF-8\"?>"

----------------------------------------------------------------------------
(* State machine *)

\* the arguments of the demo call: the example data and every default
DemoArgs == [seller_data |-> SellerOK, buyer_data |-> BuyerOK,
             invoice_items |-> <<ItemA>>] @@ Defaults

Init ==
    /\ invoice_counter = 1
    /\ key_file \in KeyFiles
    /\ args = DemoArgs
    /\ pc = "idle"
    /\ invoice_data = NoneRecord
    /\ signature = None
    /\ sign_failed = FALSE
    /\ returned = NoneRecord
    /\ written = NoneRecord
    /\ record = NoneRecord
    /\ record_signature = None
    /\ first_xml = NoneRecord
    /\ last_xml = NoneRecord
    /\ qr_call = NoneRecord

\* the caller binds one argument of its next call
SetArg(k, v) ==
    /\ pc = "idle"
    /\ args[k] # v
    /\ Overrides([args EXCEPT ![k] = v]) <= MaxOverrides
    /\ args' = [args EXCEPT ![k] = v]
    /\ UNCHANGED <<invoice_counter, key_file, pc, invoice_data, signature,
                   sign_failed, returned, written, direct>>

SetSeller == \E v \in Sellers : SetArg("seller_data", v)
SetBuyer == \E v \in Buyers : SetArg("buyer_data", v)
SetItems == \E v \in ItemLists : SetArg("invoice_items", v)
SetInvoiceNumber == \E v \in InvoiceNumbers : SetArg("invoice_number", v)
SetPreviousHash == \E v \in PreviousHashes : SetArg("previous_invoice_hash", v)
SetIssueDate == \E v \in IssueDates : SetArg("issue_date", v)
SetIssueTime == \E v \in IssueTimes : SetArg("issue_time", v)
SetTaxRate == \E v \in TaxRates : SetArg("tax_rate", v)
SetPaymentMeans == \E v \in PaymentMeansCodes : SetArg("payment_means_code", v)
SetCurrency == \E v \in Currencies : SetArg("currency", v)
SetOutputPath == \E v \in OutputPaths : SetArg("output_path", v)

\* the environment replaces, removes or damages the key file
ChangeKeyFile ==
    /\ pc = "idle"
    /\ \E k \in KeyFiles \ {key_file} : key_file' = k
    /\ UNCHANGED <<invoice_counter, args, pc, invoice_data, signature,
                   sign_failed, returned, written, direct>>

\* the key file after "if not os.path.exists(...): self.generate_keys(...)"
KeyAfterGenerate(key) == IF key = "absent" THEN "valid" ELSE key

\* Outcome with "return final_invoice" inside "if output_path:"
Outcome_ReturnInsideIf(counter, key, a, now, uuid4, nonce) ==
    IF ItemsRaise(a.invoice_items)
    THEN [data |-> NoneRecord, sig |-> None, failed |-> FALSE,
          result |-> NoneRecord, file |-> NoneRecord]
    ELSE
        LET data == create_simple_invoice(counter, a, now, uuid4)
                    @@ [payment_means_code |-> a.payment_means_code,
                        currency |-> a.currency]
            s == sign_invoice(data, key, nonce)
            counter1 == CounterAfterCreate(counter, a.invoice_number)
        IN  IF AssemblyRaises(data)
            THEN [data |-> data, sig |-> s.value, failed |-> s.failed,
                  result |-> NoneRecord, file |-> NoneRecord]
            ELSE
                LET final_invoice ==
                        [declaration |-> XmlDeclaration,
                         xml |-> create_invoice_xml(counter1, data, s.value)]
                IN  IF ~ Truthy(a.output_path)
                    THEN [data |-> data, sig |-> s.value, failed |-> s.failed,
                          result |-> NoneRecord, file |-> NoneRecord]
                    ELSE IF a.output_path \in UnwritablePaths
                    THEN [data |-> data, sig |-> s.value, failed |-> s.failed,
                          result |-> NoneRecord, file |-> NoneRecord]
                    ELSE [data |-> data, sig |-> s.value, failed |-> s.failed,
                          result |-> final_invoice, file |-> final_invoice]

\* what the try block of generate_complete_invoice computes
Outcome(counter, key, a, now, uuid4, nonce) ==
    IF ItemsRaise(a.invoice_items)
    THEN [data |-> NoneRecord, sig |-> None, failed |-> FALSE,
          result |-> NoneRecord, file |-> NoneRecord]
    ELSE
        LET data == create_simple_invoice(counter, a, now, uuid4)
                    @@ [payment_means_code |-> a.payment_means_code,
                        currency |-> a.currency]
            s == sign_invoice(data, key, nonce)
            counter1 == CounterAfterCreate(counter, a.invoice_number)
        IN  IF AssemblyRaises(data)
            THEN [data |-> data, sig |-> s.value, failed |-> s.failed,
                  result |-> NoneRecord, file |-> NoneRecord]
            ELSE
                LET final_invoice ==
                        [declaration |-> XmlDeclaration,
                         xml |-> create_invoice_xml(counter1, data, s.value)]
                IN  IF ~ Truthy(a.output_path)
                    THEN [data |-> data, sig |-> s.value, failed |-> s.failed,
                          result |-> final_invoice, file |-> NoneRecord]
                    ELSE IF a.output_path \in UnwritablePaths
                    THEN [data |-> data, sig |-> s.value, failed |-> s.failed,
                          result |-> NoneRecord, file |-> NoneRecord]
                    ELSE [data |-> data, sig |-> s.value, failed |-> s.failed,
                          result |-> final_invoice, file |-> final_invoice]

generate_complete_invoice ==
    /\ pc = "idle"
    /\ invoice_counter < MaxCounter
    /\ \E now \in Clock, uuid4 \in Uuids, nonce \in Nonces :
         LET key == KeyAfterGenerate(key_file)
             o == Outcome(invoice_counter, key, args, now, uuid4, nonce)
         IN  /\ key_file' = key
             /\ invoice_counter' = CounterAfterCreate(invoice_counter, args.invoice_number)
             /\ invoice_data' = o.data
             /\ signature' = o.sig
             /\ sign_failed' = o.failed
             /\ returned' = o.result
             /\ written' = o.file
    /\ pc' = "returned"
    /\ UNCHANGED <<args, direct>>

\* the caller takes the returned value and goes on to its next call
TakeResult ==
    /\ pc = "returned"
    /\ pc' = "idle"
    /\ invoice_data' = NoneRecord
    /\ signature' = None
    /\ sign_failed' = FALSE
    /\ returned' = NoneRecord
    /\ written' = NoneRecord
    /\ UNCHANGED <<invoice_counter, key_file, args, direct>>

Next ==
    \/ SetSeller \/ SetBuyer \/ SetItems \/ SetInvoiceNumber \/ SetPreviousHash
    \/ SetIssueDate \/ SetIssueTime \/ SetTaxRate \/ SetPaymentMeans
    \/ SetCurrency \/ SetOutputPath
    \/ ChangeKeyFile
    \/ generate_complete_invoice
    \/ TakeResult

Spec == Init /\ [][Next]_vars

----------------------------------------------------------------------------
(* Direct use of the public methods: a caller creates a record, may sign   *)
(* it, assembles it and asks for its QR code, while complete invoices are  *)
(* generated on the same instance in between.                              *)

\* output paths handed to generate_qr_code
QrOutputPaths == {None, "qr.png", "missing_dir/qr.png"}
\* paths img.save(path) cannot create
UnwritableQrPaths == {"missing_dir/qr.png"}

\* generate_qr_code(invoice_data, output_path): img.save raises for a path it
\* cannot write, and the exception leaves the method before "return qr_data"
generate_qr_code_call(data, output_path) ==
    IF Truthy(output_path) /\ output_path \in UnwritableQrPaths
    THEN [output_path |-> output_path, raised |-> TRUE, payload |-> None]
    ELSE [output_path |-> output_path, raised |-> FALSE,
          payload |-> generate_qr_code(data)]

\* record = zatca.create_simple_invoice(seller_data, buyer_data, invoice_items, ...)
CallCreateSimpleInvoice ==
    /\ pc = "idle"
    /\ IsNone(record)
    /\ invoice_counter < MaxCounter
    /\ \E now \in Clock, uuid4 \in Uuids :
         record' = IF ItemsRaise(args.invoice_items) THEN NoneRecord
                   ELSE create_simple_invoice(invoice_counter, args, now, uuid4)
    /\ invoice_counter' = CounterAfterCreate(invoice_counter, args.invoice_number)
    /\ UNCHANGED <<key_file, args, pc, invoice_data, signature, sign_failed,
                   returned, written, record_signature, first_xml, last_xml, qr_call>>

\* signature = zatca.sign_invoice(record), before the record is assembled
CallSignInvoice ==
    /\ pc = "idle"
    /\ ~ IsNone(record)
    /\ IsNone(first_xml)
    /\ record_signature = None
    /\ \E nonce \in Nonces :
         record_signature' = sign_invoice(record, key_file, nonce).value
    /\ UNCHANGED <<invoice_counter, key_file, args, pc, invoice_data, signature,
                   sign_failed, returned, written, record, first_xml, last_xml, qr_call>>

\* xml = zatca.create_invoice_xml(record, signature); a call that raises
\* gives the caller nothing and changes nothing
CallCreateInvoiceXml ==
    /\ pc = "idle"
    /\ ~ IsNone(record)
    /\ ~ AssemblyRaises(record)
    /\ last_xml' = create_invoice_xml(invoice_counter, record, record_signature)
    /\ first_xml' = IF IsNone(first_xml) THEN last_xml' ELSE first_xml
    /\ UNCHANGED <<invoice_counter, key_file, args, pc, invoice_data, signature,
                   sign_failed, returned, written, record, record_signature, qr_call>>

\* zatca.generate_qr_code(record, output_path)
CallGenerateQrCode ==
    /\ pc = "idle"
    /\ ~ IsNone(record)
    /\ \E output_path \in QrOutputPaths :
         /\ qr_call' = generate_qr_code_call(record, output_path)
         /\ qr_call' # qr_call
    /\ UNCHANGED <<invoice_counter, key_file, args, pc, invoice_data, signature,
                   sign_failed, returned, written, record, record_signature,
                   first_xml, last_xml>>

\* the caller lets go of the record and of what it got for it
DropRecord ==
    /\ pc = "idle"
    /\ ~ IsNone(record)
    /\ record' = NoneRecord
    /\ record_signature' = None
    /\ first_xml' = NoneRecord
    /\ last_xml' = NoneRecord
    /\ qr_call' = NoneRecord
    /\ UNCHANGED <<invoice_counter, key_file, args, pc, invoice_data, signature,
                   sign_failed, returned, written>>

\* the caller binds arguments only while it holds no record
PrepareItems == IsNone(record) /\ SetItems
PrepareInvoiceNumber == IsNone(record) /\ SetInvoiceNumber
PrepareTaxRate == IsNone(record) /\ SetTaxRate

DirectNext ==
    \/ PrepareItems \/ PrepareInvoiceNumber \/ PrepareTaxRate
    \/ CallCreateSimpleInvoice
    \/ CallSignInvoice
    \/ CallCreateInvoiceXml
    \/ CallGenerateQrCode
    \/ DropRecord
    \/ generate_complete_invoice
    \/ TakeResult

DirectSpec == Init /\ [][DirectNext]_vars

----------------------------------------------------------------------------
(* Reading a produced document *)

\* the last call returned a document
Produced == pc = "returned" /\ ~ IsNone(returned)

\* node.find(tag): the first child with that tag
Child(node, tag) == FindAll(node.children, tag)[1]

\* the ds:Signature element of a document root
DsSignature(root) ==
    Child(Child(Child(Child(Child(Child(root, "ext:UBLExtensions"), "ext:UBLExtension"),
        "ext:ExtensionContent"), "sig:UBLDocumentSignatures"),
        "sac:SignatureInformation"), "ds:Signature")

SignatureValueOf(root) == Child(DsSignature(root), "ds:SignatureValue").text

DigestValueOf(root) ==
    Child(Child(Child(DsSignature(root), "ds:SignedInfo"), "ds:Reference"),
          "ds:DigestValue").text

\* the cac:AdditionalDocumentReference children whose cbc:ID is id
References(root, id) ==
    SelectSeq(root.children,
              LAMBDA n : /\ n.tag = "cac:AdditionalDocumentReference"
                         /\ Child(n, "cbc:ID").text = id)

\* the 2-decimal texts of 0 .. MaxCents, by their value in cents
AmountTexts == [c \in 0..MaxCents |-> FormatCents(c)]

\* the value in cents of a non-negative 2-decimal text
ParseAmount(text) == CHOOSE c \in 0..MaxCents : AmountTexts[c] = text

----------------------------------------------------------------------------
(* The input constraints of the specification (section 4.1 and 3) *)

ItemsValid(items) ==
    /\ items # <<>>
    /\ \A i \in 1..Len(items) :
          /\ {"price", "quantity"} \subseteq DOMAIN items[i]
          /\ items[i].quantity > 0
          /\ items[i].price >= 0

RateValid(rate) == rate >= 0 /\ rate <= 100

AddressValid(address) ==
    \A k \in AddressKeys : k \in DOMAIN address /\ address[k] # ""

SellerValid(seller) ==
    /\ \A k \in {"name", "vat", "id_number", "id_scheme"} :
          k \in DOMAIN seller /\ seller[k] # ""
    /\ AddressValid(seller.address)

BuyerValid(buyer) == buyer.name # "" /\ AddressValid(buyer.address)

InputValid(a) ==
    /\ ItemsValid(a.invoice_items)
    /\ RateValid(a.tax_rate)
    /\ SellerValid(a.seller_data)
    /\ BuyerValid(a.buyer_data)

----------------------------------------------------------------------------
(* Claims *)

\* C1: when signing fails (the key file cannot be read or imported, or the
\* signing primitive raises), generate_complete_invoice returns a failure, writes
\* no document to the output path, and no document it returns carries the
\* fabricated placeholder signature.
C1_SigningFailureAborts ==
    /\ (pc = "returned" /\ sign_failed) => (IsNone(returned) /\ IsNone(written))
    /\ Produced => SignatureValueOf(returned.xml) # SignaturePlaceholder

\* C2: every invoice creation raises the sequence counter by exactly one,
\* whether or not the caller supplied its own invoice number, and no step ever
\* lowers or resets the counter.
C2_CounterStepsByOneOnEveryCreation ==
    [][/\ (pc = "idle" /\ pc' = "returned" /\ ~ IsNone(invoice_data'))
            => invoice_counter' = invoice_counter + 1
       /\ invoice_counter' >= invoice_counter]_vars

\* C3: invalid business input (empty item list, a quantity <= 0, a price < 0,
\* a tax rate outside [0, 100], a missing or empty mandatory party or address
\* field) ends the call in a failure: no document is returned and none is written.
C3_InvalidInputRejected ==
    (pc = "returned" /\ ~ InputValid(args)) => (IsNone(returned) /\ IsNone(written))


\* the tags of the document identity block, in order
IdentityTags ==
    <<"cbc:UBLVersionID", "cbc:CustomizationID", "cbc:ProfileID", "cbc:ID", "cbc:UUID",
      "cbc:IssueDate", "cbc:IssueTime", "cbc:InvoiceTypeCode",
      "cbc:DocumentCurrencyCode", "cbc:TaxCurrencyCode">>

\* the ids of the additional document references of a child list, in order
ReferenceIds(children) ==
    LET refs == FindAll(children, "cac:AdditionalDocumentReference")
    IN  [i \in 1..Len(refs) |-> Child(refs[i], "cbc:ID").text]

\* the child list follows the fixed top-level sequence
InFixedSequence(children) ==
    LET tags == Tags(children)
        ids == ReferenceIds(children)
    IN  /\ ids \in {<<"ICV", "QR">>, <<"ICV", "PIH", "QR">>}
        /\ \E lines \in 0..Len(tags) :
              tags = <<"ext:UBLExtensions">> \o IdentityTags
                     \o [i \in 1..Len(ids) |-> "cac:AdditionalDocumentReference"]
                     \o <<"cac:AccountingSupplierParty", "cac:AccountingCustomerParty",
                          "cac:Delivery", "cac:PaymentMeans", "cac:TaxTotal",
                          "cac:TaxTotal", "cac:LegalMonetaryTotal">>
                     \o [i \in 1..lines |-> "cac:InvoiceLine"]

\* C4: the children of every assembled Invoice root are, in this order, the
\* UBLExtensions, the ten identity elements, the ICV reference, the PIH reference
\* when there is one, the QR reference, seller party, buyer party, Delivery,
\* PaymentMeans, the TaxTotal elements, LegalMonetaryTotal and then all the
\* InvoiceLine elements, one per item.
C4_FixedTopLevelSequence ==
    Produced =>
        /\ InFixedSequence(returned.xml.children)
        /\ Len(FindAll(returned.xml.children, "cac:InvoiceLine"))
              = Len(args.invoice_items)

\* a document with a PIH reference and two invoice lines was assembled
C4_Witness ==
    /\ Produced
    /\ Len(References(returned.xml, "PIH")) = 1
    /\ Len(FindAll(returned.xml.children, "cac:InvoiceLine")) = 2

\* C5: an assembled document holds a PIH reference exactly when a previous
\* invoice hash was passed for that invoice (a non-empty string; None or '' is
\* the genesis case), and then it holds exactly one, whose embedded value is
\* the passed string, whatever calls were made on the instance before.
C5_PreviousHashReference ==
    Produced =>
        LET pih == References(returned.xml, "PIH")
        IN  IF Truthy(args.previous_invoice_hash)
            THEN /\ Len(pih) = 1
                 /\ Child(Child(pih[1], "cac:Attachment"),
                          "cbc:EmbeddedDocumentBinaryObject").text
                        = args.previous_invoice_hash
            ELSE Len(pih) = 0

\* after two earlier default-numbered invoices, an invoice was assembled with
\* a previous hash
C5_Witness ==
    /\ Produced
    /\ invoice_counter = 3
    /\ args.invoice_number = None
    /\ Truthy(args.previous_invoice_hash)
    /\ Len(References(returned.xml, "PIH")) = 1

\* C6: in a returned document both variable leaves of the signature block hold
\* values computed for this invoice: SignatureValue is the signature the signing
\* step produced and DigestValue is the base64 SHA-256 digest of the signed
\* content, and neither is still the placeholder.
C6_SignatureLeavesFilled ==
    Produced =>
        /\ SignatureValueOf(returned.xml) = signature
        /\ SignatureValueOf(returned.xml) # SignaturePlaceholder
        /\ DigestValueOf(returned.xml) = b64encode(sha256(ToString(invoice_data)))
        /\ DigestValueOf(returned.xml) # DigestPlaceholder

\* the three totals of a document, in cents as emitted
EmittedTotals(root) ==
    LET totals == Child(root, "cac:LegalMonetaryTotal")
    IN  [exclusive |-> ParseAmount(Child(totals, "cbc:TaxExclusiveAmount").text),
         inclusive |-> ParseAmount(Child(totals, "cbc:TaxInclusiveAmount").text),
         tax |-> ParseAmount(Child(Child(root, "cac:TaxTotal"), "cbc:TaxAmount").text)]

\* C7: for valid line items and tax rate, the emitted 2-decimal totals satisfy
\* TaxExclusiveAmount + TaxAmount = TaxInclusiveAmount to the cent.
C7_TotalsAddUp ==
    (Produced /\ ItemsValid(args.invoice_items) /\ RateValid(args.tax_rate)) =>
        LET t == EmittedTotals(returned.xml)
        IN  t.exclusive + t.tax = t.inclusive

RECURSIVE SumCents(_)
\* the sum of a sequence of 2-decimal texts, in cents
SumCents(texts) ==
    IF texts = <<>> THEN 0 ELSE ParseAmount(texts[1]) + SumCents(Tail(texts))

\* the per-line amounts of a document, as emitted
LineExtensionTexts(root) ==
    LET lines == FindAll(root.children, "cac:InvoiceLine")
    IN  [i \in 1..Len(lines) |-> Child(lines[i], "cbc:LineExtensionAmount").text]

LineTaxTexts(root) ==
    LET lines == FindAll(root.children, "cac:InvoiceLine")
    IN  [i \in 1..Len(lines) |->
            Child(Child(lines[i], "cac:TaxTotal"), "cbc:TaxAmount").text]

\* C8: in every assembled document (valid items, any valid rate) the tax-exclusive
\* total equals the sum of the emitted per-line LineExtensionAmount values and the
\* document TaxAmount equals the sum of the emitted per-line TaxAmount values.
C8_TotalsReconcileWithLines ==
    (Produced /\ ItemsValid(args.invoice_items) /\ RateValid(args.tax_rate)) =>
        LET t == EmittedTotals(returned.xml)
        IN  /\ t.exclusive = SumCents(LineExtensionTexts(returned.xml))
            /\ t.tax = SumCents(LineTaxTexts(returned.xml))

RECURSIVE Descendants(_)
\* a node and every node below it
Descendants(node) ==
    {node} \cup UNION {Descendants(node.children[i]) : i \in 1..Len(node.children)}

\* the tags of the monetary elements
MonetaryTags ==
    {"cbc:TaxAmount", "cbc:TaxableAmount", "cbc:RoundingAmount",
     "cbc:LineExtensionAmount", "cbc:TaxExclusiveAmount", "cbc:TaxInclusiveAmount",
     "cbc:AllowanceTotalAmount", "cbc:PrepaidAmount", "cbc:PayableAmount",
     "cbc:PriceAmount", "cbc:Amount", "cbc:BaseAmount"}

\* C9: every monetary element of an assembled document carries a currencyID
\* equal to the currency declared for the invoice, whatever that currency is,
\* and DocumentCurrencyCode names the same currency.
C9_CurrencyEverywhere ==
    Produced =>
        /\ \A n \in Descendants(returned.xml) :
              (n.tag \in MonetaryTags \/ Attr(n, "currencyID") # None)
                  => Attr(n, "currencyID") = args.currency
        /\ Child(returned.xml, "cbc:DocumentCurrencyCode").text = args.currency

\* the cac:Party of the buyer
BuyerParty(root) == Child(Child(root, "cac:AccountingCustomerParty"), "cac:Party")

\* C10: a buyer whose id_number is absent or empty gets no PartyIdentification
\* element at all, a buyer with an id_number gets exactly one, carrying that
\* number; in both cases the postal address and the registration name are
\* emitted.
C10_BuyerIdentification ==
    Produced =>
        LET party == BuyerParty(returned.xml)
            ids == FindAll(party.children, "cac:PartyIdentification")
            buyer == args.buyer_data
        IN  /\ IF Truthy(Get(buyer, "id_number", None))
               THEN /\ Len(ids) = 1
                    /\ Len(ids[1].children) = 1
                    /\ Child(ids[1], "cbc:ID").text = buyer.id_number
               ELSE Len(ids) = 0
            /\ Len(FindAll(party.children, "cac:PostalAddress")) = 1
            /\ Child(Child(party, "cac:PostalAddress"), "cbc:PostalZone").text
                  = buyer.address.postal_code
            /\ Child(Child(party, "cac:PartyLegalEntity"), "cbc:RegistrationName").text
                  = buyer.name

\* a document was assembled for a buyer without an id_number key
C10_Witness ==
    /\ Produced
    /\ "id_number" \notin DOMAIN args.buyer_data
    /\ Len(BuyerParty(returned.xml).children) = 2

\* the attribute names that declare an identifier's scheme
SchemeAttributes == {"schemeID", "schemeAgencyID", "schemeName", "schemeURI"}

\* the element declares a scheme
DeclaresScheme(node) ==
    \E i \in 1..Len(node.attrib) : node.attrib[i][1] \in SchemeAttributes

\* the elements whose cbc:ID is a scheme-carrying identifier
SchemeCarriers ==
    {"cac:PartyIdentification", "cac:TaxCategory", "cac:ClassifiedTaxCategory"}

\* C11: in every assembled document the cbc:ID of each party identification
\* (seller, and buyer when present) and of each tax category (the document-level
\* TaxCategory and every line's ClassifiedTaxCategory) declares a scheme attribute.
C11_SchemeAttributesDeclared ==
    Produced =>
        \A n \in Descendants(returned.xml) :
            n.tag \in SchemeCarriers => DeclaresScheme(Child(n, "cbc:ID"))

\* the text embedded in the QR reference of a document
QrEmbedded(root) ==
    Child(Child(References(root, "QR")[1], "cac:Attachment"),
          "cbc:EmbeddedDocumentBinaryObject").text

\* the QR payload made of the fields as the document itself states them
QrPayloadOf(root) ==
    LET seller_vat ==
            Child(Child(Child(Child(root, "cac:AccountingSupplierParty"), "cac:Party"),
                  "cac:PartyTaxScheme"), "cbc:CompanyID").text
        timestamp == Child(root, "cbc:IssueDate").text \o "T"
                     \o Child(root, "cbc:IssueTime").text
        total == Child(Child(root, "cac:LegalMonetaryTotal"),
                       "cbc:TaxInclusiveAmount").text
        vat == Child(Child(root, "cac:TaxTotal"), "cbc:TaxAmount").text
        digest == b64encode(sha256(seller_vat \o timestamp \o total \o vat))
    IN  seller_vat \o "|" \o timestamp \o "|" \o total \o "|" \o vat \o "|" \o digest

\* C12: the QR payload is the seller VAT id, the timestamp issue_date 'T'
\* issue_time, the total with tax and the VAT amount as 2-decimal texts, and the
\* base64 SHA-256 digest of those four concatenated, in that order and joined
\* by '|'; it depends on those four values only.
C12_QrPayload ==
    Produced =>
        /\ Len(References(returned.xml, "QR")) = 1
        /\ QrEmbedded(returned.xml) = b64encode(QrPayloadOf(returned.xml))
        /\ \E now \in Clock :
              /\ Child(returned.xml, "cbc:IssueDate").text
                    = (IF args.issue_date = None THEN now.date ELSE args.issue_date)
              /\ Child(returned.xml, "cbc:IssueTime").text
                    = (IF args.issue_time = None THEN now.time ELSE args.issue_time)

\* a document with a caller-given issue date and a total that differs from its
\* VAT amount was assembled
C12_Witness ==
    /\ Produced
    /\ args.issue_date # None
    /\ Child(Child(returned.xml, "cac:LegalMonetaryTotal"), "cbc:TaxInclusiveAmount").text
          # Child(Child(returned.xml, "cac:TaxTotal"), "cbc:TaxAmount").text

\* the tax category elements of a document: the TaxCategory of the VAT
\* breakdown and the ClassifiedTaxCategory of every line
TaxCategories(root) ==
    {n \in Descendants(root) : n.tag \in {"cac:TaxCategory", "cac:ClassifiedTaxCategory"}}

\* C14: every assembled document, also one with tax rate zero, holds the
\* document-level TaxCategory and one ClassifiedTaxCategory per line, and the
\* cbc:Percent of each of them is the invoice's tax rate ("0" for rate zero).
C14_PercentIsTaxRate ==
    Produced =>
        /\ \E n \in TaxCategories(returned.xml) : n.tag = "cac:TaxCategory"
        /\ \A i \in 1..Len(FindAll(returned.xml.children, "cac:InvoiceLine")) :
              Len(FindAll(Child(FindAll(returned.xml.children, "cac:InvoiceLine")[i],
                                "cac:Item").children,
                          "cac:ClassifiedTaxCategory")) = 1
        /\ \A n \in TaxCategories(returned.xml) :
              Child(n, "cbc:Percent").text = ToString(args.tax_rate)

\* nothing raised inside the try block of the last call, the write aside
NoErrorBeforeWrite ==
    /\ ~ ItemsRaise(args.invoice_items)
    /\ ~ AssemblyRaises(invoice_data)

\* C16: a call without output path in which nothing raises returns the complete
\* document (the XML declaration and the assembled Invoice) and writes no file;
\* a file is written only when an output path was given and the whole document
\* was assembled, and its content is the returned document.
C16_ReturnedAndWritten ==
    pc = "returned" =>
        /\ (~ Truthy(args.output_path) /\ NoErrorBeforeWrite) =>
              /\ Produced
              /\ returned.declaration = XmlDeclaration
              /\ returned.xml.tag = "Invoice"
              /\ InFixedSequence(returned.xml.children)
        /\ ~ Truthy(args.output_path) => IsNone(written)
        /\ ~ IsNone(written) =>
              /\ Produced
              /\ written = returned
              /\ InFixedSequence(written.xml.children)
        /\ (Produced /\ Truthy(args.output_path)) => written = returned

\* a call without output path returned a document and wrote nothing
C16_Witness ==
    /\ Produced
    /\ args.output_path = None
    /\ IsNone(written)
    /\ Len(FindAll(returned.xml.children, "cac:InvoiceLine")) >= 1

\* the text of the ICV reference of a document
IcvOf(root) == Child(References(root, "ICV")[1], "cbc:UUID").text

\* C17: a document generated with a default invoice number INV-<date>-k carries,
\* in its ICV reference, the same sequence value k its number was derived from.
C17_IcvMatchesInvoiceNumber ==
    (Produced /\ args.invoice_number = None) =>
        \E now \in Clock, k \in 1..(MaxCounter + 1) :
            /\ Child(returned.xml, "cbc:ID").text
                  = "INV-" \o now.ymd \o "-" \o Pad3(k)
            /\ IcvOf(returned.xml) = ToString(k)

\* the last step was a generate_complete_invoice call that returned None
FailedCall == pc = "idle" /\ pc' = "returned" /\ IsNone(returned')

\* C18: a generate_complete_invoice call that fails (returns None) leaves the
\* invoice counter as it was, so no sequence number is skipped.
C18_FailedCallKeepsCounter ==
    [][FailedCall => invoice_counter' = invoice_counter]_vars

----------------------------------------------------------------------------
\* C13: a generate_qr_code call returns the payload whatever happens to the
\* image: with an output path given, and the image rendered or not, saved or
\* not, the caller gets the string it would get with no output path.
C13_QrPayloadDespiteRenderFailure ==
    (~ IsNone(qr_call) /\ ~ IsNone(record)) =>
        /\ ~ qr_call.raised
        /\ qr_call.payload = generate_qr_code(record)

\* C15: assembling the record the caller holds, with the signature it holds,
\* gives the document the first assembly gave, whatever was created or
\* assembled on the instance in between.
C15_AssemblyIsStateless ==
    (~ IsNone(first_xml) /\ ~ IsNone(last_xml)) => last_xml = first_xml

====
